---- MODULE Spec2Model ----
(***************************************************************************)
(* Model of generate_modlist_from_save.py: the extractor that reads the    *)
(* `meta` block of a RimWorld save, the two emitters (mod-list XML and     *)
(* CSV) and the pipeline process_rws_file that runs them in sequence.      *)
(*                                                                         *)
(* A Python str is a tuple of code points, so that `<` on strings is the   *)
(* code-point lexicographic order the interpreter uses.  A parsed XML      *)
(* element is a record [tag, text, kids]; Element.text is a str or None.   *)
(***************************************************************************)
EXTENDS Integers, Sequences, FiniteSets, TLC

VARIABLES input, fs, writable, pc, game_version, mod_list, err, traceback

vars == <<input, fs, writable, pc, game_version, mod_list, err, traceback>>

(* ------------------------------------------------------------------ *)
(* Bounds                                                              *)
(* ------------------------------------------------------------------ *)

\* Longest <li> list a generated save holds under modIds/modSteamIds/modNames.
MaxMods == 2

(* ------------------------------------------------------------------ *)
(* Values                                                              *)
(* ------------------------------------------------------------------ *)

\* Python's None as an Element.text: no str holds the code point -1.
None == <<-1>>

\* "a", "ab", "B": ord("B") = 66 < ord("a") = 97, and "a" is a prefix of "ab".
IdVals == {None, <<97>>, <<97, 98>>, <<66>>}

\* "1" and "2" as game versions.
V1 == <<49>>
V2 == <<50>>

Element(tag, text, kids) == [tag |-> tag, text |-> text, kids |-> kids]

NoElement == Element("", None, <<>>)

\* A save file's content: not XML at all, or a parsed tree.
NotXml == [xml |-> FALSE, root |-> NoElement]
XmlDoc(root) == [xml |-> TRUE, root |-> root]

(* Files of the two output paths.  kind "absent": nothing at the path;     *)
(* "stale": a file left by an earlier run; "xml"/"csv": written by a run.  *)
File(kind, xml, header, rows) ==
    [kind |-> kind, xml |-> xml, header |-> header, rows |-> rows]
Absent == File("absent", NoElement, <<>>, <<>>)
Stale == File("stale", NoElement, <<>>, <<>>)

Paths == {"output_rml", "output_csv"}

\* An exception: its class, its message and the counts the message shows.
Exc(type, msg, counts) == [type |-> type, msg |-> msg, counts |-> counts]
NoErr == Exc("", "", <<>>)

ModFromSave(mod_id, mod_steam_id, mod_name) ==
    [mod_id |-> mod_id, mod_steam_id |-> mod_steam_id, mod_name |-> mod_name]

(* ------------------------------------------------------------------ *)
(* extract_mod_from_save                                               *)
(* ------------------------------------------------------------------ *)

RECURSIVE KidsOfAll(_)
KidsOfAll(els) == IF els = <<>> THEN <<>> ELSE Head(els).kids \o KidsOfAll(Tail(els))

\* Mutant: the search also descends one level, as root.iter("meta") would.
meta_el_deep(root) ==
    SelectSeq(root.kids \o KidsOfAll(root.kids), LAMBDA child : child.tag = "meta")

\* meta_el = [child for child in root if child.tag == "meta"]
meta_el(root) == SelectSeq(root.kids, LAMBDA child : child.tag = "meta")

\* [el.text for el in meta_child]
Texts(meta_child) == [i \in 1..Len(meta_child.kids) |-> meta_child.kids[i].text]

\* The function's locals before the loop: only game_version is assigned.
Locals0 ==
    [game_version |-> None, mod_ids |-> <<>>, mod_steam_ids |-> <<>>,
     mod_names |-> <<>>, bound |-> {}]

\* One iteration of `for meta_child in meta_el[0]`: dispatch on the tag.
Dispatch(loc, meta_child) ==
    CASE meta_child.tag = "gameVersion" ->
           [loc EXCEPT !.game_version = meta_child.text]
      [] meta_child.tag = "modIds" ->
           [loc EXCEPT !.mod_ids = Texts(meta_child),
                       !.bound = @ \cup {"mod_ids"}]
      [] meta_child.tag = "modSteamIds" ->
           [loc EXCEPT !.mod_steam_ids = Texts(meta_child),
                       !.bound = @ \cup {"mod_steam_ids"}]
      [] meta_child.tag = "modNames" ->
           [loc EXCEPT !.mod_names = Texts(meta_child),
                       !.bound = @ \cup {"mod_names"}]
      [] OTHER -> loc

RECURSIVE ScanMeta(_, _)
ScanMeta(kids, loc) ==
    IF kids = <<>> THEN loc
    ELSE ScanMeta(Tail(kids), Dispatch(loc, Head(kids)))

Min(a, b) == IF a < b THEN a ELSE b

\* Mutant: the Steam ids and the names change places in the zip.
ZipMods_swapped(ids, steams, names) ==
    [i \in 1..Min(Len(ids), Min(Len(steams), Len(names))) |->
        ModFromSave(ids[i], names[i], steams[i])]

\* zip(mod_ids, mod_steam_ids, mod_names) into ModFromSave records.
ZipMods(ids, steams, names) ==
    [i \in 1..Min(Len(ids), Min(Len(steams), Len(names))) |->
        ModFromSave(ids[i], steams[i], names[i])]

\* Mutant: the names are left out of the comparison.
LengthsDiffer_noNames(ids, steams, names) == Len(ids) # Len(steams)

\* len(mod_ids) != len(mod_steam_ids) or len(mod_ids) != len(mod_names)
LengthsDiffer(ids, steams, names) ==
    Len(ids) # Len(steams) \/ Len(ids) # Len(names)

Raise(e) == [err |-> e, game_version |-> None, mods |-> <<>>]
Return(v, mods) == [err |-> NoErr, game_version |-> v, mods |-> mods]

\* Mutant: the lengths are compared before the version is looked at.
AfterLoop_lengthsFirst(loc) ==
    IF loc.bound # {"mod_ids", "mod_steam_ids", "mod_names"}
    THEN Raise(Exc("UnboundLocalError", "cannot access local variable", <<>>))
    ELSE IF LengthsDiffer(loc.mod_ids, loc.mod_steam_ids, loc.mod_names)
    THEN Raise(Exc("RuntimeError", "Different number of mod ids/names/steamids",
                   <<Len(loc.mod_ids), Len(loc.mod_steam_ids), Len(loc.mod_names)>>))
    ELSE IF loc.game_version = None
    THEN Raise(Exc("RuntimeError", "Game version is empty", <<>>))
    ELSE Return(loc.game_version,
                ZipMods(loc.mod_ids, loc.mod_steam_ids, loc.mod_names))

\* The checks and the zip that follow the loop.
AfterLoop(loc) ==
    IF loc.game_version = None
    THEN Raise(Exc("RuntimeError", "Game version is empty", <<>>))
    ELSE IF loc.bound # {"mod_ids", "mod_steam_ids", "mod_names"}
    THEN Raise(Exc("UnboundLocalError", "cannot access local variable", <<>>))
    ELSE IF LengthsDiffer(loc.mod_ids, loc.mod_steam_ids, loc.mod_names)
    THEN Raise(Exc("RuntimeError", "Different number of mod ids/names/steamids",
                   <<Len(loc.mod_ids), Len(loc.mod_steam_ids), Len(loc.mod_names)>>))
    ELSE Return(loc.game_version,
                ZipMods(loc.mod_ids, loc.mod_steam_ids, loc.mod_names))

extract_mod_from_save(save) ==
    IF ~save.xml
    THEN Raise(Exc("ParseError", "syntax error", <<>>))
    ELSE IF Len(meta_el(save.root)) = 0
    THEN Raise(Exc("RuntimeError", "Couldn't find 'meta' element in rws file.", <<>>))
    ELSE AfterLoop(ScanMeta(meta_el(save.root)[1].kids, Locals0))

(* ------------------------------------------------------------------ *)
(* mods_to_modlist                                                     *)
(* ------------------------------------------------------------------ *)

Li(text) == Element("li", text, <<>>)

ListOf(tag, texts) ==
    Element(tag, None, [i \in 1..Len(texts) |-> Li(texts[i])])

Column(mods, field) == [i \in 1..Len(mods) |-> mods[i][field]]

\* Mutant: modList is given a Steam-id list too, like meta.
ModlistDoc_steamInModList(version, mods) ==
    Element("savedModList", None,
      << Element("meta", None,
           << Element("gameVersion", version, <<>>),
              ListOf("modIds", Column(mods, "mod_id")),
              ListOf("modSteamIds", Column(mods, "mod_steam_id")),
              ListOf("modNames", Column(mods, "mod_name")) >>),
         Element("modList", None,
           << ListOf("ids", Column(mods, "mod_id")),
              ListOf("steamIds", Column(mods, "mod_steam_id")),
              ListOf("names", Column(mods, "mod_name")) >>) >>)

\* The tree built under base_doc.
ModlistDoc(version, mods) ==
    Element("savedModList", None,
      << Element("meta", None,
           << Element("gameVersion", version, <<>>),
              ListOf("modIds", Column(mods, "mod_id")),
              ListOf("modSteamIds", Column(mods, "mod_steam_id")),
              ListOf("modNames", Column(mods, "mod_name")) >>),
         Element("modList", None,
           << ListOf("ids", Column(mods, "mod_id")),
              ListOf("names", Column(mods, "mod_name")) >>) >>)

Outcome(files, e) == [fs |-> files, err |-> e]

CannotOpen == Exc("OSError", "cannot open for writing", <<>>)

mods_to_modlist(version, mods, files, canWrite) ==
    IF Len(mods) = 0 THEN Outcome(files, NoErr)
    ELSE IF ~canWrite["output_rml"] THEN Outcome(files, CannotOpen)
    ELSE Outcome([files EXCEPT !["output_rml"] =
                     File("xml", ModlistDoc(version, mods), <<>>, <<>>)], NoErr)

(* ------------------------------------------------------------------ *)
(* mods_to_csv                                                         *)
(* ------------------------------------------------------------------ *)

\* a < b on two str: code-point lexicographic, a proper prefix is smaller.
StrLess(a, b) ==
    \E k \in 1..(Min(Len(a), Len(b)) + 1) :
        /\ \A j \in 1..(k - 1) : a[j] = b[j]
        /\ \/ k > Len(a) /\ k <= Len(b)
           \/ k <= Len(a) /\ k <= Len(b) /\ a[k] < b[k]

\* Mutant: m goes before the elements of equal key (an unstable sort).
InsertByKey_beforeEqual(sorted, m) ==
    LET later == {i \in 1..Len(sorted) : ~StrLess(sorted[i].mod_id, m.mod_id)}
        at == IF later = {} THEN Len(sorted) + 1
              ELSE CHOOSE i \in later : \A j \in later : i <= j
    IN SubSeq(sorted, 1, at - 1) \o <<m>> \o SubSeq(sorted, at, Len(sorted))

\* m placed after every element whose key is not greater than its own.
InsertByKey(sorted, m) ==
    LET later == {i \in 1..Len(sorted) : StrLess(m.mod_id, sorted[i].mod_id)}
        at == IF later = {} THEN Len(sorted) + 1
              ELSE CHOOSE i \in later : \A j \in later : i <= j
    IN SubSeq(sorted, 1, at - 1) \o <<m>> \o SubSeq(sorted, at, Len(sorted))

RECURSIVE SortInto(_, _)
SortInto(sorted, rest) ==
    IF rest = <<>> THEN sorted
    ELSE SortInto(InsertByKey(sorted, Head(rest)), Tail(rest))

\* sorted(mods, key=lambda m: m.mod_id): stable, ascending.
sorted_mods(mods) == SortInto(<<>>, mods)

\* list.sort compares every key at least once when there are two or more
\* elements, and `<` with a None operand raises TypeError.
SortRaises(mods) ==
    Len(mods) >= 2 /\ \E i \in 1..Len(mods) : mods[i].mod_id = None

field_names == <<"mod_id", "mod_name", "mod_steam_id">>

\* The csv writer renders None as the empty string.
CsvField(v) == IF v = None THEN <<>> ELSE v

\* writer.writerow(dataclasses.asdict(mod)): the fields in field_names order.
CsvRow(mod) == [k \in 1..Len(field_names) |-> CsvField(mod[field_names[k]])]

CsvRows(mods) == [i \in 1..Len(mods) |-> CsvRow(sorted_mods(mods)[i])]

\* Mutant: the empty list is not skipped, a header-only file is written.
mods_to_csv_noSkip(mods, files, canWrite) ==
    IF SortRaises(mods)
    THEN Outcome(files, Exc("TypeError", "'<' not supported", <<>>))
    ELSE IF ~canWrite["output_csv"] THEN Outcome(files, CannotOpen)
    ELSE Outcome([files EXCEPT !["output_csv"] =
                     File("csv", NoElement, field_names, CsvRows(mods))], NoErr)

mods_to_csv(mods, files, canWrite) ==
    IF Len(mods) = 0 THEN Outcome(files, NoErr)
    ELSE IF SortRaises(mods)
    THEN Outcome(files, Exc("TypeError", "'<' not supported", <<>>))
    ELSE IF ~canWrite["output_csv"] THEN Outcome(files, CannotOpen)
    ELSE Outcome([files EXCEPT !["output_csv"] =
                     File("csv", NoElement, field_names, CsvRows(mods))], NoErr)

(* ------------------------------------------------------------------ *)
(* process_rws_file                                                    *)
(* ------------------------------------------------------------------ *)

\* Mutant: the CSV is written before the mod list.
process_rws_file_csvFirst(step) ==
    CASE step = "extract_mod_from_save" -> "mods_to_csv"
      [] step = "mods_to_csv" -> "mods_to_modlist"
      [] step = "mods_to_modlist" -> "done"

\* The statement that follows each call of process_rws_file.
process_rws_file(step) ==
    CASE step = "extract_mod_from_save" -> "mods_to_modlist"
      [] step = "mods_to_modlist" -> "mods_to_csv"
      [] step = "mods_to_csv" -> "done"

\* An exception is not caught: it ends the run.
Continue(step, e) == IF e = NoErr THEN process_rws_file(step) ELSE "failed"
Trace(step, e) == IF e = NoErr THEN "" ELSE step

(* ------------------------------------------------------------------ *)
(* Inputs                                                              *)
(* ------------------------------------------------------------------ *)

RECURSIVE SeqsUpTo(_, _)
SeqsUpTo(S, n) ==
    IF n = 0 THEN {<<>>}
    ELSE LET shorter == SeqsUpTo(S, n - 1)
         IN shorter \cup {Append(s, x) : s \in {t \in shorter : Len(t) = n - 1}, x \in S}

IdLists == SeqsUpTo(IdVals, MaxMods)

\* Steam ids "1", "2", ...: item i is numbered i; a mod that is not from
\* Steam may stand first with an empty <li/>, whose text is None.
SteamLists ==
    {[i \in 1..n |-> <<48 + i>>] : n \in 0..MaxMods}
    \cup {[i \in 1..n |-> IF i = 1 THEN None ELSE <<48 + i>>] : n \in 1..MaxMods}

\* Names "X" and "Y".
NameVals == {<<88>>, <<89>>}
NameLists == SeqsUpTo(NameVals, MaxMods)

\* What a slot of a layout stands for, as a child of <meta>.
Slot(s, ids, steams, names) ==
    CASE s = "gv" -> Element("gameVersion", V1, <<>>)
      [] s = "gv2" -> Element("gameVersion", V2, <<>>)
      [] s = "gvNone" -> Element("gameVersion", None, <<>>)
      [] s = "ids" -> ListOf("modIds", ids)
      [] s = "idsB" -> ListOf("modIds", << <<66>> >>)
      [] s = "steam" -> ListOf("modSteamIds", steams)
      [] s = "names" -> ListOf("modNames", names)
      [] s = "other" -> Element("modIdsWithoutPostfix", None, << Li(<<97>>) >>)

\* The four recognised children in any subset, in document order or reversed.
BaseOrder == <<"gv", "ids", "steam", "names">>
Pick(keep) == SelectSeq(BaseOrder, LAMBDA s : s \in keep)
Reverse(s) == [i \in 1..Len(s) |-> s[Len(s) + 1 - i]]
PlainLayouts ==
    {Pick(keep) : keep \in SUBSET {"gv", "ids", "steam", "names"}}
    \cup {Reverse(Pick(keep)) : keep \in SUBSET {"gv", "ids", "steam", "names"}}

\* Duplicated and unrecognised children.
OddLayouts ==
    { <<"gvNone", "ids", "steam", "names">>,
      <<"gvNone">>,
      <<"gv", "gvNone", "ids", "steam", "names">>,
      <<"gvNone", "gv2", "ids", "steam", "names">>,
      <<"gv", "ids", "steam", "names", "gv2">>,
      <<"gv", "idsB", "ids", "steam", "names">>,
      <<"gv", "ids", "steam", "names", "idsB">>,
      <<"other", "gv", "ids", "other", "steam", "names">>,
      <<"gv", "other">> }

Layouts == PlainLayouts \cup OddLayouts

MetaOf(layout, ids, steams, names) ==
    Element("meta", None,
            [i \in 1..Len(layout) |-> Slot(layout[i], ids, steams, names)])

\* Where the meta element sits in the document.
RootOf(shape, meta) ==
    CASE shape = "meta" -> Element("savegame", None, <<meta>>)
      [] shape = "game_meta" ->
           Element("savegame", None, << Element("game", None, <<>>), meta >>)
      [] shape = "meta_meta" ->
           Element("savegame", None, << meta, Element("meta", None, <<>>) >>)
      [] shape = "empty_meta" ->
           Element("savegame", None, << Element("meta", None, <<>>), meta >>)
      [] shape = "nested" ->
           Element("savegame", None, << Element("game", None, <<meta>>) >>)
      [] shape = "Meta" ->
           Element("savegame", None, << [meta EXCEPT !.tag = "Meta"] >>)
      [] shape = "flat" -> Element("savegame", None, meta.kids)

OtherShapes == {"game_meta", "meta_meta", "empty_meta", "nested", "Meta", "flat"}
FewLayouts == { BaseOrder, <<"ids", "steam", "names">>, <<>> }

\* The save files a run may be given.
IsSave(save) ==
    \/ save = NotXml
    \/ \E l \in Layouts, i \in IdLists, s \in SteamLists, n \in NameLists :
          save = XmlDoc(RootOf("meta", MetaOf(l, i, s, n)))
    \/ \E sh \in OtherShapes, l \in FewLayouts,
          i \in IdLists, s \in SteamLists, n \in NameLists :
          save = XmlDoc(RootOf(sh, MetaOf(l, i, s, n)))

(* ------------------------------------------------------------------ *)
(* The pipeline                                                        *)
(* ------------------------------------------------------------------ *)

Init ==
    /\ IsSave(input)
    /\ \E old \in {Absent, Stale} : fs = [p \in Paths |-> old]
    /\ writable \in {[p \in Paths |-> TRUE],
                     [p \in Paths |-> p # "output_rml"],
                     [p \in Paths |-> p # "output_csv"]}
    /\ pc = "extract_mod_from_save"
    /\ game_version = None
    /\ mod_list = <<>>
    /\ err = NoErr
    /\ traceback = ""

Extract ==
    /\ pc = "extract_mod_from_save"
    /\ LET r == extract_mod_from_save(input)
       IN /\ game_version' = r.game_version
          /\ mod_list' = r.mods
          /\ err' = r.err
          /\ pc' = Continue(pc, r.err)
          /\ traceback' = Trace(pc, r.err)
    /\ UNCHANGED <<input, fs, writable>>

ModsToModlist ==
    /\ pc = "mods_to_modlist"
    /\ LET r == mods_to_modlist(game_version, mod_list, fs, writable)
       IN /\ fs' = r.fs
          /\ err' = r.err
          /\ pc' = Continue(pc, r.err)
          /\ traceback' = Trace(pc, r.err)
    /\ UNCHANGED <<input, writable, game_version, mod_list>>

ModsToCsv ==
    /\ pc = "mods_to_csv"
    /\ LET r == mods_to_csv(mod_list, fs, writable)
       IN /\ fs' = r.fs
          /\ err' = r.err
          /\ pc' = Continue(pc, r.err)
          /\ traceback' = Trace(pc, r.err)
    /\ UNCHANGED <<input, writable, game_version, mod_list>>

Next == Extract \/ ModsToModlist \/ ModsToCsv

Spec == Init /\ [][Next]_vars

(* ------------------------------------------------------------------ *)
(* Vocabulary of the properties: a save read directly from its tree    *)
(* ------------------------------------------------------------------ *)

\* The root has a direct child tagged exactly `meta`.
HasMeta(save) ==
    save.xml /\ \E i \in 1..Len(save.root.kids) : save.root.kids[i].tag = "meta"

\* The metadata block of a save: the first direct child tagged `meta`.
MetaBlock(save) ==
    LET kids == save.root.kids
    IN kids[CHOOSE i \in 1..Len(kids) :
              kids[i].tag = "meta" /\ \A j \in 1..(i - 1) : kids[j].tag # "meta"]

\* The positions of the last child of el with this tag (none or one).
LastAt(el, tag) ==
    {i \in 1..Len(el.kids) :
        el.kids[i].tag = tag /\ \A j \in (i + 1)..Len(el.kids) : el.kids[j].tag # tag}

Present(save, tag) == LastAt(MetaBlock(save), tag) # {}

\* The game version of a save: the text of the last gameVersion, if any.
SaveVersion(save) ==
    IF Present(save, "gameVersion")
    THEN MetaBlock(save).kids[CHOOSE i \in LastAt(MetaBlock(save), "gameVersion") : TRUE].text
    ELSE None

\* The items of a list of the save, an absent list having none.
Items(save, tag) ==
    IF Present(save, tag)
    THEN LET el == MetaBlock(save).kids[CHOOSE i \in LastAt(MetaBlock(save), tag) : TRUE]
         IN [i \in 1..Len(el.kids) |-> el.kids[i].text]
    ELSE <<>>

ListTags == {"modIds", "modSteamIds", "modNames"}

SameLengths(save) ==
    /\ Len(Items(save, "modIds")) = Len(Items(save, "modSteamIds"))
    /\ Len(Items(save, "modIds")) = Len(Items(save, "modNames"))

\* A save with a meta block and a game version.
Versioned(save) == HasMeta(save) /\ SaveVersion(save) # None

Extracted == pc # "extract_mod_from_save"
ExtractReturned == Extracted /\ traceback # "extract_mod_from_save"
ExtractRaised(e) ==
    /\ pc = "failed"
    /\ traceback = "extract_mod_from_save"
    /\ err = e
    /\ mod_list = <<>>

ModlistReturned ==
    \/ pc \in {"mods_to_csv", "done"}
    \/ pc = "failed" /\ traceback = "mods_to_csv"

IsStr(t) == t # None
AllStr(mods) ==
    \A i \in 1..Len(mods) :
        IsStr(mods[i].mod_id) /\ IsStr(mods[i].mod_steam_id) /\ IsStr(mods[i].mod_name)

\* el is a list of `li` items holding this field of each record, in order.
IsLiList(el, tag, mods, field) ==
    /\ el.tag = tag
    /\ Len(el.kids) = Len(mods)
    /\ \A i \in 1..Len(mods) :
          /\ el.kids[i].tag = "li"
          /\ el.kids[i].text = mods[i][field]
          /\ el.kids[i].kids = <<>>

\* doc is the mod-list document of this version and these records.
IsModlistOf(doc, version, mods) ==
    /\ doc.tag = "savedModList"
    /\ Len(doc.kids) = 2
    /\ doc.kids[1].tag = "meta"
    /\ Len(doc.kids[1].kids) = 4
    /\ doc.kids[1].kids[1].tag = "gameVersion"
    /\ doc.kids[1].kids[1].text = version
    /\ IsLiList(doc.kids[1].kids[2], "modIds", mods, "mod_id")
    /\ IsLiList(doc.kids[1].kids[3], "modSteamIds", mods, "mod_steam_id")
    /\ IsLiList(doc.kids[1].kids[4], "modNames", mods, "mod_name")
    /\ doc.kids[2].tag = "modList"
    /\ Len(doc.kids[2].kids) = 2
    /\ IsLiList(doc.kids[2].kids[1], "ids", mods, "mod_id")
    /\ IsLiList(doc.kids[2].kids[2], "names", mods, "mod_name")
    /\ doc.kids[2].kids[1].kids = doc.kids[1].kids[2].kids

RECURSIVE LexLeq(_, _)
\* a <= b in lexicographic order of code points.
LexLeq(a, b) ==
    IF a = <<>> THEN TRUE
    ELSE IF b = <<>> THEN FALSE
    ELSE \/ Head(a) < Head(b)
         \/ Head(a) = Head(b) /\ LexLeq(Tail(a), Tail(b))

\* rows are the records rearranged by a stable ascending sort on mod_id.
IsStableSortOf(rows, mods) ==
    /\ Len(rows) = Len(mods)
    /\ \E p \in [1..Len(mods) -> 1..Len(mods)] :
          /\ \A k, l \in 1..Len(mods) : k # l => p[k] # p[l]
          /\ \A k \in 1..Len(mods) :
                rows[k] = <<mods[p[k]].mod_id, mods[p[k]].mod_name, mods[p[k]].mod_steam_id>>
          /\ \A k, l \in 1..Len(mods) :
                k < l => /\ LexLeq(mods[p[k]].mod_id, mods[p[l]].mod_id)
                         /\ mods[p[k]].mod_id = mods[p[l]].mod_id => p[k] < p[l]

\* The save is one of those the extractor must refuse.
MustRefuse(save) ==
    \/ ~save.xml
    \/ ~HasMeta(save)
    \/ SaveVersion(save) = None
    \/ ~SameLengths(save)

(* ------------------------------------------------------------------ *)
(* Properties                                                          *)
(* ------------------------------------------------------------------ *)

\* C1: a save with a meta block, a game version and three lists of the same
\* length N yields the version and exactly N records, record i being
\* (modIds[i], modSteamIds[i], modNames[i]), in modIds order.
C1_ZipInOrder ==
    (/\ Extracted
     /\ Versioned(input)
     /\ \A t \in ListTags : Present(input, t)
     /\ SameLengths(input))
    => /\ ExtractReturned
       /\ game_version = SaveVersion(input)
       /\ Len(mod_list) = Len(Items(input, "modIds"))
       /\ \A i \in 1..Len(mod_list) :
             /\ mod_list[i].mod_id = Items(input, "modIds")[i]
             /\ mod_list[i].mod_steam_id = Items(input, "modSteamIds")[i]
             /\ mod_list[i].mod_name = Items(input, "modNames")[i]

\* Two records with different ids, Steam ids and names were extracted.
C1_Witness ==
    /\ ExtractReturned
    /\ Len(mod_list) = 2
    /\ mod_list[1].mod_id # mod_list[2].mod_id
    /\ mod_list[1].mod_name # mod_list[2].mod_name
    /\ mod_list[1].mod_steam_id # mod_list[2].mod_steam_id

\* C2: with a meta block and a game version, lists that do not all have the
\* same length (a shorter, empty or absent list included) always make the
\* extraction fail with the RuntimeError that shows the three lengths.
C2_MismatchAlwaysRuntimeError ==
    (Extracted /\ Versioned(input) /\ ~SameLengths(input))
    => ExtractRaised(Exc("RuntimeError", "Different number of mod ids/names/steamids",
                         << Len(Items(input, "modIds")),
                            Len(Items(input, "modSteamIds")),
                            Len(Items(input, "modNames")) >>))

\* C3: a well-formed document whose root has no direct child tagged `meta`
\* always fails with the RuntimeError of the missing meta element.
C3_NoMetaRaises ==
    (Extracted /\ input.xml /\ ~HasMeta(input))
    => ExtractRaised(Exc("RuntimeError", "Couldn't find 'meta' element in rws file.", <<>>))

\* A document that holds a meta element only below a child of the root failed.
C3_Witness ==
    /\ pc = "failed"
    /\ input.xml
    /\ ~HasMeta(input)
    /\ \E i \in 1..Len(input.root.kids) :
          \E j \in 1..Len(input.root.kids[i].kids) :
              input.root.kids[i].kids[j].tag = "meta"

\* C4: a save with a meta block and no game version fails with "Game
\* version is empty" whatever its three lists are: the version is checked
\* before the lengths.
C4_VersionCheckedFirst ==
    (Extracted /\ HasMeta(input) /\ SaveVersion(input) = None)
    => ExtractRaised(Exc("RuntimeError", "Game version is empty", <<>>))

\* A save without version whose lists have different lengths failed.
C4_Witness ==
    /\ pc = "failed"
    /\ HasMeta(input)
    /\ SaveVersion(input) = None
    /\ \A t \in ListTags : Present(input, t)
    /\ ~SameLengths(input)

\* C5: with an empty record list neither emitter changes the file system.
C5_EmptyListWritesNothing ==
    [][(pc \in {"mods_to_modlist", "mods_to_csv"} /\ mod_list = <<>>) => fs' = fs]_vars

\* Both emitters ran on an empty list and the files of an earlier run remain.
C5_Witness ==
    /\ pc = "done"
    /\ mod_list = <<>>
    /\ \A p \in Paths : fs[p] = Stale

\* C6: for a non-empty record list the document written by mods_to_modlist
\* has root savedModList, meta/gameVersion equal to the version, and exactly
\* the five li lists meta/modIds, meta/modSteamIds, meta/modNames,
\* modList/ids, modList/names, each in the order of the records.
C6_ModlistDocument ==
    (ModlistReturned /\ mod_list # <<>>)
    => /\ fs["output_rml"].kind = "xml"
       /\ IsModlistOf(fs["output_rml"].xml, game_version, mod_list)

\* A mod list of two different mods was written.
C6_Witness ==
    /\ pc = "done"
    /\ Len(mod_list) = 2
    /\ mod_list[1].mod_id # mod_list[2].mod_id
    /\ fs["output_rml"].kind = "xml"

\* C7: for a non-empty list of records (their fields being str) the rows
\* written by mods_to_csv are the records in ascending lexicographic order of
\* mod id, records of equal id keeping their input order.
C7_CsvStableSorted ==
    (pc = "done" /\ mod_list # <<>> /\ AllStr(mod_list))
    => /\ fs["output_csv"].kind = "csv"
       /\ fs["output_csv"].header = <<"mod_id", "mod_name", "mod_steam_id">>
       /\ IsStableSortOf(fs["output_csv"].rows, mod_list)

\* A CSV was written whose rows are not in the order of the records.
C7_Witness ==
    /\ pc = "done"
    /\ Len(mod_list) = 2
    /\ AllStr(mod_list)
    /\ mod_list[1].mod_id # mod_list[2].mod_id
    /\ ~LexLeq(mod_list[1].mod_id, mod_list[2].mod_id)
    /\ fs["output_csv"].kind = "csv"

\* C8: when the extraction fails (not XML, no meta, no game version,
\* mismatched lengths) no output file is ever written or changed, and no
\* file changes before the extraction has returned.
C8_NoOutputOnFailedExtraction ==
    [][(MustRefuse(input) \/ pc \in {"extract_mod_from_save", "failed"}) => fs' = fs]_vars

\* An extraction failed on mismatched lengths and the earlier files remain.
C8_Witness ==
    /\ pc = "failed"
    /\ traceback = "extract_mod_from_save"
    /\ err.counts # <<>>
    /\ \A p \in Paths : fs[p] = Stale

\* C9 as stated: when one emitter fails, the other file holds what a run in
\* which both succeed leaves there.
C9_OtherOutputUnaffected ==
    /\ (traceback = "mods_to_csv")
          => fs["output_rml"] = File("xml", ModlistDoc(game_version, mod_list), <<>>, <<>>)
    /\ (traceback = "mods_to_modlist" /\ AllStr(mod_list) /\ writable["output_csv"])
          => fs["output_csv"] = File("csv", NoElement, field_names, CsvRows(mod_list))

\* C9 amended: when mods_to_csv fails the mod-list file holds the complete
\* document; when mods_to_modlist fails the run ends there and no CSV is
\* written.
C9_OnlyEarlierOutputKept ==
    /\ (traceback = "mods_to_csv")
          => /\ fs["output_rml"].kind = "xml"
             /\ IsModlistOf(fs["output_rml"].xml, game_version, mod_list)
    /\ (traceback = "mods_to_modlist")
          => /\ pc = "failed"
             /\ fs["output_csv"].kind \in {"absent", "stale"}

\* mods_to_modlist failed although the CSV path could have been written.
C9_Witness ==
    /\ pc = "failed"
    /\ traceback = "mods_to_modlist"
    /\ writable["output_csv"]
    /\ AllStr(mod_list)

\* C10: a save whose meta holds a game version and none of the three lists
\* yields the version and an empty record sequence.
C10_NoListsYieldsEmpty ==
    (Extracted /\ Versioned(input) /\ \A t \in ListTags : ~Present(input, t))
    => /\ ExtractReturned
       /\ game_version = SaveVersion(input)
       /\ mod_list = <<>>

====
